---- MODULE Spec2Model ----
(***************************************************************************)
(* RangeBoundsMap (src/src/range_bounds_map.rs): an ordered map of         *)
(* non-overlapping ranges kept in a BTreeMap that is searched with         *)
(* comparators derived from a bound.  The map is modelled as the in-order  *)
(* sequence of its (K, V) entries.                                         *)
(***************************************************************************)
EXTENDS Integers, Sequences, FiniteSets, TLC

\* ---------------------------------------------------------------- bounds
\* the scalar type I is 0..MaxVal for the raw pair type and 0..MaxVal + 1 for
\* the range types that hold one combination of bounds (see ValsOf)
MaxVal == 1
\* no call is taken that would leave more than MaxLen entries in the map
MaxLen == 3

Vals == 0..(MaxVal + 1)
\* the value type V
Values == {0, 1}

\* ---------------------------------------------------------------- Option
None == <<>>
Some(x) == <<x>>
IsSome(o) == Len(o) = 1
Unwrap(o) == o[1]

\* ---------------------------------------------------------------- Bound<I>
Unbounded == <<"U", 0>>
Included(v) == <<"I", v>>
Excluded(v) == <<"E", v>>
Bounds == {Unbounded} \cup {Included(v) : v \in Vals} \cup {Excluded(v) : v \in Vals}

\* NiceRange: a range is the pair of its start and end bound
start(k) == k[1]
end(k) == k[2]
BoundPairs == Bounds \X Bounds

\* ---------------------------------------------------------------- BoundOrd
\* rank of a bound used as a start: Unbounded < Included(v) < Excluded(v)
BoundOrd_start(b) ==
    CASE b[1] = "U" -> <<-1, 0>>
      [] b[1] = "I" -> <<b[2], 1>>
      [] b[1] = "E" -> <<b[2], 2>>

\* rank of a bound used as an end: Excluded(v) < Included(v) < Unbounded
BoundOrd_end(b) ==
    CASE b[1] = "U" -> <<MaxVal + 2, 2>>
      [] b[1] = "I" -> <<b[2], 1>>
      [] b[1] = "E" -> <<b[2], 0>>

\* lexicographic order of two ranks
BoundOrd_lt(a, b) == a[1] < b[1] \/ (a[1] = b[1] /\ a[2] < b[2])

BoundOrd_cmp(a, b) ==
    IF BoundOrd_lt(a, b) THEN "Less"
    ELSE IF BoundOrd_lt(b, a) THEN "Greater"
    ELSE "Equal"

\* a range is valid when its start does not rank above its end
is_valid_range(k) == ~BoundOrd_lt(BoundOrd_end(end(k)), BoundOrd_start(start(k)))

ValidRanges == {k \in BoundPairs : is_valid_range(k)}

\* ---------------------------------------------------------------- helpers
overlaps(a, b) ==
    /\ ~BoundOrd_lt(BoundOrd_end(end(a)), BoundOrd_start(start(b)))
    /\ ~BoundOrd_lt(BoundOrd_end(end(b)), BoundOrd_start(start(a)))

\* where a bound lies relative to a range: before it, inside it, after it
cmp_range_with_bound_ord(range, bound_ord) ==
    IF BoundOrd_lt(bound_ord, BoundOrd_start(start(range))) THEN "Less"
    ELSE IF BoundOrd_lt(BoundOrd_end(end(range)), bound_ord) THEN "Greater"
    ELSE "Equal"

\* Included(v) <-> Excluded(v): the end that touches a start and vice versa
flip_bound(b) ==
    CASE b[1] = "U" -> Unbounded
      [] b[1] = "I" -> Excluded(b[2])
      [] b[1] = "E" -> Included(b[2])

\* cut_range(target, cutter): the parts of target before, inside and after cutter
cut_range(base_range, cutter) ==
    LET inside_start == IF BoundOrd_lt(BoundOrd_start(start(base_range)), BoundOrd_start(start(cutter)))
                        THEN start(cutter) ELSE start(base_range)
        inside_end == IF BoundOrd_lt(BoundOrd_end(end(cutter)), BoundOrd_end(end(base_range)))
                      THEN end(cutter) ELSE end(base_range)
    IN [before_cut |-> IF BoundOrd_lt(BoundOrd_start(start(base_range)), BoundOrd_start(start(cutter)))
                       THEN Some(<<start(base_range), flip_bound(start(cutter))>>) ELSE None,
        inside_cut |-> IF is_valid_range(<<inside_start, inside_end>>)
                       THEN Some(<<inside_start, inside_end>>) ELSE None,
        after_cut |-> IF BoundOrd_lt(BoundOrd_end(end(cutter)), BoundOrd_end(end(base_range)))
                      THEN Some(<<flip_bound(end(cutter)), end(base_range)>>) ELSE None]

\* ---------------------------------------------------------------- TryFromBounds
KTypes == {"BoundPair", "Range", "RangeInclusive", "RangeFrom", "RangeTo",
           "RangeToInclusive", "RangeFull"}

try_from_bounds(kt, start_bound, end_bound) ==
    CASE kt = "BoundPair" -> Some(<<start_bound, end_bound>>)
      [] kt = "Range" ->
            IF start_bound[1] = "I" /\ end_bound[1] = "E"
            THEN Some(<<start_bound, end_bound>>) ELSE None
      [] kt = "RangeInclusive" ->
            IF start_bound[1] = "I" /\ end_bound[1] = "I"
            THEN Some(<<start_bound, end_bound>>) ELSE None
      [] kt = "RangeFrom" ->
            IF start_bound[1] = "I" /\ end_bound[1] = "U"
            THEN Some(<<start_bound, end_bound>>) ELSE None
      [] kt = "RangeTo" ->
            IF start_bound[1] = "U" /\ end_bound[1] = "E"
            THEN Some(<<start_bound, end_bound>>) ELSE None
      [] kt = "RangeToInclusive" ->
            IF start_bound[1] = "U" /\ end_bound[1] = "I"
            THEN Some(<<start_bound, end_bound>>) ELSE None
      [] kt = "RangeFull" ->
            IF start_bound[1] = "U" /\ end_bound[1] = "U"
            THEN Some(<<start_bound, end_bound>>) ELSE None

\* The scalars each instantiation <I, K> is run over.  The raw pair type takes
\* every combination of bounds and reaches every shape of map with few
\* scalars; a type with one combination needs one scalar more before a cut
\* can leave a remainder on each side of it.
ValsOf(kt) == IF kt = "BoundPair" THEN 0..MaxVal ELSE 0..(MaxVal + 1)

InDomain(kt, k) ==
    \A b \in {start(k), end(k)} : b[1] = "U" \/ b[2] \in ValsOf(kt)

\* the valid ranges a value of type K can be
KRanges(kt) ==
    {k \in ValidRanges : InDomain(kt, k) /\ IsSome(try_from_bounds(kt, start(k), end(k)))}

\* the valid ranges a query argument Q can be
Queries(kt) == {q \in ValidRanges : InDomain(kt, q)}

\* ---------------------------------------------------------------- comparators
\* A comparator closure is modelled by the BoundOrd it captures; calling it on
\* a key is cmp_range_with_bound_ord(key, captured).

\* comp_start ranking the bound as an end
comp_start_as_end(bound) == BoundOrd_end(bound)

comp_start(bound) == BoundOrd_start(bound)

call_comp(comp, inner_range) == cmp_range_with_bound_ord(inner_range, comp)

\* comp_end ranking the bound as a start
comp_end_as_start(bound) == BoundOrd_start(bound)

comp_end(bound) == BoundOrd_end(bound)

\* double_comp with its two arguments taken the other way round
double_comp_swapped(inner_range, new_range) ==
    BoundOrd_cmp(BoundOrd_start(start(inner_range)), BoundOrd_start(start(new_range)))

double_comp(inner_range, new_range) ==
    BoundOrd_cmp(BoundOrd_start(start(new_range)), BoundOrd_start(start(inner_range)))

\* ---------------------------------------------------------------- BTreeMap
\* The tree search walks the keys in order and stops at the first key the
\* comparator does not call Greater: Equal there is a hit, Less is the edge
\* where the searched key would go.
search_tree(m, comp) ==
    LET stops == {i \in 1..Len(m) : call_comp(comp, m[i][1]) # "Greater"}
    IN IF stops = {} THEN Len(m) + 1
       ELSE CHOOSE i \in stops : \A j \in stops : i <= j

\* index of the entry the comparator calls Equal, 0 when the search ends on an edge
find_key_index(m, comp) ==
    LET i == search_tree(m, comp)
    IN IF i <= Len(m) /\ call_comp(comp, m[i][1]) = "Equal" THEN i ELSE 0

RemoveAt(m, i) == SubSeq(m, 1, i - 1) \o SubSeq(m, i + 1, Len(m))
InsertAt(m, i, e) == SubSeq(m, 1, i - 1) \o <<e>> \o SubSeq(m, i, Len(m))

\* get_key_value taking the entry at the edge where the search stopped
get_key_value_edge(m, comp) ==
    LET i == search_tree(m, comp)
    IN IF i > Len(m) THEN None ELSE Some(m[i])

get_key_value(m, comp) ==
    LET i == find_key_index(m, comp)
    IN IF i = 0 THEN None ELSE Some(m[i])

get_mut(m, comp) ==
    LET i == find_key_index(m, comp)
    IN IF i = 0 THEN None ELSE Some(m[i][2])

\* remove that hands out the value and leaves the entry in the map
remove_keep(m, comp) ==
    LET i == find_key_index(m, comp)
    IN IF i = 0 THEN [value |-> None, inner |-> m]
       ELSE [value |-> Some(m[i][2]), inner |-> m]

\* remove: the value of the removed entry and the map without it
remove(m, comp) ==
    LET i == find_key_index(m, comp)
    IN IF i = 0 THEN [value |-> None, inner |-> m]
       ELSE [value |-> Some(m[i][2]), inner |-> RemoveAt(m, i)]

\* insert: an entry whose key compares Equal keeps its key and takes the new value
insert(m, key, value) ==
    LET stops == {j \in 1..Len(m) : double_comp(m[j][1], key) # "Greater"}
        i == IF stops = {} THEN Len(m) + 1
             ELSE CHOOSE j \in stops : \A l \in stops : j <= l
    IN IF i <= Len(m) /\ double_comp(m[i][1], key) = "Equal"
       THEN [m EXCEPT ![i] = <<m[i][1], value>>]
       ELSE InsertAt(m, i, <<key, value>>)

\* range with the upper bound Excluded: a hit of upper_comp is left out
range_upper_excluded(m, lower_comp, upper_comp) ==
    LET lo == search_tree(m, lower_comp)
        hi == search_tree(m, upper_comp) - 1
    IN SubSeq(m, lo, hi)

\* range(lower_comp, Included, upper_comp, Included): from where the search
\* with lower_comp stops to where the search with upper_comp stops; an
\* Included bound takes the entry of a hit in, an edge lies between entries
range(m, lower_comp, upper_comp) ==
    LET lo == search_tree(m, lower_comp)
        stop == search_tree(m, upper_comp)
        hi == IF stop <= Len(m) /\ call_comp(upper_comp, m[stop][1]) = "Equal"
              THEN stop ELSE stop - 1
    IN SubSeq(m, lo, hi)

\* drain_filter that yields the matching entries without taking them out
drain_filter_keep(m, q) ==
    [drained |-> SelectSeq(m, LAMBDA e : overlaps(e[1], q)),
     inner |-> m]

\* drain_filter(move |inner_range, _| overlaps(*inner_range, range)), run to
\* its end: the entries the closure accepts, and the map without them
drain_filter(m, q) ==
    [drained |-> SelectSeq(m, LAMBDA e : overlaps(e[1], q)),
     inner |-> SelectSeq(m, LAMBDA e : ~overlaps(e[1], q))]

\* ---------------------------------------------------------------- RangeBoundsMap
\* the entries a call returns, the map it leaves and how it ended
Ok(m, returned) == [inner |-> m, res |-> "Ok", ret |-> returned]
Err(m, e) == [inner |-> m, res |-> e, ret |-> <<>>]
Panic(m) == [inner |-> m, res |-> "Panic", ret |-> <<>>]

\* overlapping whose upper comparator ranks the end of q as a start
overlapping_upper_start(m, q) ==
    range(m, comp_start(start(q)), comp_start(end(q)))

overlapping(m, q) ==
    range(m, comp_start(start(q)), comp_end(end(q)))

map_overlaps(m, q) == Len(overlapping(m, q)) > 0

get_entry_at_point(m, point) ==
    get_key_value(m, comp_start(Included(point)))

get_at_point(m, point) ==
    LET e == get_entry_at_point(m, point)
    IN IF IsSome(e) THEN Some(Unwrap(e)[2]) ELSE None

contains_point(m, point) == IsSome(get_entry_at_point(m, point))

get_at_point_mut(m, point) ==
    get_mut(m, comp_start(Included(point)))

iter(m) == m

\* remove_overlapping that hands the overlapping entries out and keeps them
remove_overlapping_keep(m, q) == Ok(m, drain_filter(m, q).drained)

remove_overlapping(m, q) ==
    LET d == drain_filter(m, q)
    IN Ok(d.inner, d.drained)

\* insert_unchecked that drops the entry
insert_unchecked_lost(m, k, value) == m

insert_unchecked(m, k, value) == insert(m, k, value)

\* insert_strict without the overlaps check
insert_strict_no_check(m, k, value) == Ok(insert(m, k, value), <<>>)

insert_strict(m, k, value) ==
    IF map_overlaps(m, k) THEN Err(m, "OverlapError")
    ELSE Ok(insert(m, k, value), <<>>)

\* Remainder handing the bounds of the piece to try_from_bounds end first
Remainder_swapped(kt, piece) ==
    IF IsSome(piece)
    THEN [needed |-> TRUE, k |-> try_from_bounds(kt, Unwrap(piece)[2], Unwrap(piece)[1])]
    ELSE [needed |-> FALSE, k |-> None]

\* the remainder of a cut as a K: absent, a K, or not representable
Remainder(kt, piece) ==
    IF IsSome(piece)
    THEN [needed |-> TRUE, k |-> try_from_bounds(kt, Unwrap(piece)[1], Unwrap(piece)[2])]
    ELSE [needed |-> FALSE, k |-> None]
Failed(r) == r.needed /\ ~IsSome(r.k)

\* cut_single_overlapping that does not put the remainder after q back
cut_single_overlapping_no_after(m, kt, q, single_overlapping_range) ==
    LET cut_result == cut_range(single_overlapping_range, q)
        returning_before_cut == Remainder(kt, cut_result.before_cut)
        returning_after_cut == Remainder(kt, cut_result.after_cut)
        removed == remove(m, comp_start(start(q)))
    IN IF Failed(returning_before_cut) \/ Failed(returning_after_cut)
       THEN Err(m, "TryFromBoundsError")
       ELSE IF ~IsSome(removed.value) THEN Panic(m)
       ELSE LET value == Unwrap(removed.value)
                m1 == IF returning_before_cut.needed
                      THEN insert_unchecked(removed.inner, Unwrap(returning_before_cut.k), value)
                      ELSE removed.inner
            IN IF ~IsSome(cut_result.inside_cut) THEN Panic(m1)
               ELSE Ok(m1, <<<<Unwrap(cut_result.inside_cut), value>>>>)

\* cut_single_overlapping returning the whole stored range, not the part inside q
cut_single_overlapping_whole(m, kt, q, single_overlapping_range) ==
    LET cut_result == cut_range(single_overlapping_range, q)
        returning_before_cut == Remainder(kt, cut_result.before_cut)
        returning_after_cut == Remainder(kt, cut_result.after_cut)
        removed == remove(m, comp_start(start(q)))
    IN IF Failed(returning_before_cut) \/ Failed(returning_after_cut)
       THEN Err(m, "TryFromBoundsError")
       ELSE IF ~IsSome(removed.value) THEN Panic(m)
       ELSE LET value == Unwrap(removed.value)
                m1 == IF returning_before_cut.needed
                      THEN insert_unchecked(removed.inner, Unwrap(returning_before_cut.k), value)
                      ELSE removed.inner
                m2 == IF returning_after_cut.needed
                      THEN insert_unchecked(m1, Unwrap(returning_after_cut.k), value)
                      ELSE m1
            IN Ok(m2, <<<<single_overlapping_range, value>>>>)

cut_single_overlapping(m, kt, q, single_overlapping_range) ==
    LET cut_result == cut_range(single_overlapping_range, q)
        returning_before_cut == Remainder(kt, cut_result.before_cut)
        returning_after_cut == Remainder(kt, cut_result.after_cut)
        removed == remove(m, comp_start(start(q)))
    IN IF Failed(returning_before_cut) \/ Failed(returning_after_cut)
       THEN Err(m, "TryFromBoundsError")
       ELSE IF ~IsSome(removed.value) THEN Panic(m)
       ELSE LET value == Unwrap(removed.value)
                m1 == IF returning_before_cut.needed
                      THEN insert_unchecked(removed.inner, Unwrap(returning_before_cut.k), value)
                      ELSE removed.inner
                m2 == IF returning_after_cut.needed
                      THEN insert_unchecked(m1, Unwrap(returning_after_cut.k), value)
                      ELSE m1
            IN IF ~IsSome(cut_result.inside_cut) THEN Panic(m2)
               ELSE Ok(m2, <<<<Unwrap(cut_result.inside_cut), value>>>>)

\* cut_non_single_overlapping that takes the left boundary entry out and puts
\* its remainder back before it validates the right remainder
cut_non_single_overlapping_late(m, kt, q, left_overlapping, right_overlapping) ==
    LET before_result == IF IsSome(left_overlapping)
                         THEN cut_range(Unwrap(left_overlapping), q)
                         ELSE cut_range(q, q)
        before_rem == IF IsSome(left_overlapping)
                      THEN Remainder(kt, before_result.before_cut)
                      ELSE Remainder(kt, None)
        after_result == IF IsSome(right_overlapping)
                        THEN cut_range(Unwrap(right_overlapping), q)
                        ELSE cut_range(q, q)
        after_rem == IF IsSome(right_overlapping)
                     THEN Remainder(kt, after_result.after_cut)
                     ELSE Remainder(kt, None)
        before_removed == remove(m, comp_start(start(q)))
        before_value == before_removed.value
        m1 == IF before_rem.needed
              THEN insert_unchecked(before_removed.inner, Unwrap(before_rem.k), Unwrap(before_value))
              ELSE before_removed.inner
        after_removed == remove(m1, comp_end(end(q)))
        after_value == after_removed.value
        m4 == IF after_rem.needed
              THEN insert_unchecked(after_removed.inner, Unwrap(after_rem.k), Unwrap(after_value))
              ELSE after_removed.inner
        keeping_before_entry == IF IsSome(left_overlapping)
                                THEN Some(<<Unwrap(before_result.inside_cut), Unwrap(before_value)>>)
                                ELSE None
        keeping_after_entry == IF IsSome(right_overlapping)
                               THEN Some(<<Unwrap(after_result.inside_cut), Unwrap(after_value)>>)
                               ELSE None
        interior == remove_overlapping(m4, q)
    IN IF Failed(before_rem) THEN Err(m, "TryFromBoundsError")
       ELSE IF IsSome(left_overlapping) /\ ~IsSome(before_result.inside_cut) THEN Panic(m)
       ELSE IF Failed(after_rem) THEN Err(m1, "TryFromBoundsError")
       ELSE IF IsSome(right_overlapping) /\ ~IsSome(after_result.inside_cut) THEN Panic(m1)
       ELSE IF IsSome(left_overlapping) /\ ~IsSome(before_value) THEN Panic(m1)
       ELSE IF IsSome(right_overlapping) /\ ~IsSome(after_value) THEN Panic(m4)
       ELSE Ok(interior.inner, keeping_before_entry \o interior.ret \o keeping_after_entry)

cut_non_single_overlapping(m, kt, q, left_overlapping, right_overlapping) ==
    LET before_result == IF IsSome(left_overlapping)
                         THEN cut_range(Unwrap(left_overlapping), q)
                         ELSE cut_range(q, q)
        before_rem == IF IsSome(left_overlapping)
                      THEN Remainder(kt, before_result.before_cut)
                      ELSE Remainder(kt, None)
        after_result == IF IsSome(right_overlapping)
                        THEN cut_range(Unwrap(right_overlapping), q)
                        ELSE cut_range(q, q)
        after_rem == IF IsSome(right_overlapping)
                     THEN Remainder(kt, after_result.after_cut)
                     ELSE Remainder(kt, None)
        before_removed == remove(m, comp_start(start(q)))
        after_removed == remove(before_removed.inner, comp_end(end(q)))
        before_value == before_removed.value
        after_value == after_removed.value
        m2 == after_removed.inner
        m3 == IF before_rem.needed
              THEN insert_unchecked(m2, Unwrap(before_rem.k), Unwrap(before_value))
              ELSE m2
        m4 == IF after_rem.needed
              THEN insert_unchecked(m3, Unwrap(after_rem.k), Unwrap(after_value))
              ELSE m3
        keeping_before_entry == IF IsSome(left_overlapping)
                                THEN Some(<<Unwrap(before_result.inside_cut), Unwrap(before_value)>>)
                                ELSE None
        keeping_after_entry == IF IsSome(right_overlapping)
                               THEN Some(<<Unwrap(after_result.inside_cut), Unwrap(after_value)>>)
                               ELSE None
        interior == remove_overlapping(m4, q)
    IN IF Failed(before_rem) THEN Err(m, "TryFromBoundsError")
       ELSE IF IsSome(left_overlapping) /\ ~IsSome(before_result.inside_cut) THEN Panic(m)
       ELSE IF Failed(after_rem) THEN Err(m, "TryFromBoundsError")
       ELSE IF IsSome(right_overlapping) /\ ~IsSome(after_result.inside_cut) THEN Panic(m)
       ELSE IF before_rem.needed /\ ~IsSome(before_value) THEN Panic(m2)
       ELSE IF after_rem.needed /\ ~IsSome(after_value) THEN Panic(m3)
       ELSE IF IsSome(left_overlapping) /\ ~IsSome(before_value) THEN Panic(m4)
       ELSE IF IsSome(right_overlapping) /\ ~IsSome(after_value) THEN Panic(m4)
       ELSE Ok(interior.inner, keeping_before_entry \o interior.ret \o keeping_after_entry)

\* cut that never takes the single-entry branch
cut_non_single_always(m, kt, q) ==
    LET left == get_key_value(m, comp_start(start(q)))
        right == get_key_value(m, comp_end(end(q)))
        left_overlapping == IF IsSome(left) THEN Some(Unwrap(left)[1]) ELSE None
        right_overlapping == IF IsSome(right) THEN Some(Unwrap(right)[1]) ELSE None
    IN cut_non_single_overlapping(m, kt, q, left_overlapping, right_overlapping)

cut(m, kt, q) ==
    LET left == get_key_value(m, comp_start(start(q)))
        right == get_key_value(m, comp_end(end(q)))
        left_overlapping == IF IsSome(left) THEN Some(Unwrap(left)[1]) ELSE None
        right_overlapping == IF IsSome(right) THEN Some(Unwrap(right)[1]) ELSE None
    IN IF /\ IsSome(left_overlapping) /\ IsSome(right_overlapping)
          /\ start(Unwrap(left_overlapping)) = start(Unwrap(right_overlapping))
       THEN cut_single_overlapping(m, kt, q, Unwrap(left_overlapping))
       ELSE cut_non_single_overlapping(m, kt, q, left_overlapping, right_overlapping)

\* ---------------------------------------------------------------- state machine
VARIABLES
    ktype,  \* the range type K of the map
    inner,  \* RangeBoundsMap.inner: the entries <<K, V>> in BTreeMap order
    pc,     \* "idle": the map can be called; "returned": a call has returned
            \* and its result, which borrows the map, is still held
    op,     \* the call that returned and its arguments
    pre,    \* inner when that call was made
    res,    \* how that call ended
    ret     \* the entries that call returned, drained

vars == <<ktype, inner, pc, op, pre, res, ret>>

NoRange == <<Unbounded, Unbounded>>
NoOp == [name |-> "none", range |-> NoRange, value |-> 0]

\* RangeBoundsMap::new()
Init ==
    /\ ktype \in KTypes
    /\ inner = <<>>
    /\ pc = "idle"
    /\ op = NoOp
    /\ pre = <<>>
    /\ res = "Ok"
    /\ ret = <<>>

Returned(name, q, v, result) ==
    /\ pc' = "returned"
    /\ op' = [name |-> name, range |-> q, value |-> v]
    /\ pre' = inner
    /\ inner' = result.inner
    /\ res' = result.res
    /\ ret' = result.ret
    /\ UNCHANGED ktype

InsertStrict ==
    /\ pc = "idle"
    /\ \E k \in KRanges(ktype), v \in Values :
          /\ Len(insert_strict(inner, k, v).inner) <= MaxLen
          /\ Returned("insert_strict", k, v, insert_strict(inner, k, v))

RemoveOverlapping ==
    /\ pc = "idle"
    /\ \E q \in Queries(ktype) :
          Returned("remove_overlapping", q, 0, remove_overlapping(inner, q))

Cut ==
    /\ pc = "idle"
    /\ \E q \in Queries(ktype) :
          /\ Len(cut(inner, ktype, q).inner) <= MaxLen
          /\ Returned("cut", q, 0, cut(inner, ktype, q))

\* the caller drops what the call returned; the borrow of the map ends
DropResult ==
    /\ pc = "returned"
    /\ res # "Panic"
    /\ pc' = "idle"
    /\ op' = NoOp
    /\ pre' = <<>>
    /\ res' = "Ok"
    /\ ret' = <<>>
    /\ UNCHANGED <<ktype, inner>>

Next == InsertStrict \/ RemoveOverlapping \/ Cut \/ DropResult

Spec == Init /\ [][Next]_vars

TypeOK ==
    /\ ktype \in KTypes
    /\ pc \in {"idle", "returned"}
    /\ Len(inner) <= MaxLen
    /\ res \in {"Ok", "OverlapError", "TryFromBoundsError", "Panic"}

\* ---------------------------------------------------------------- properties
Keys(m) == {m[i][1] : i \in 1..Len(m)}
Entries(m) == {m[i] : i \in 1..Len(m)}
Ascending(m) ==
    \A i \in 1..(Len(m) - 1) :
        BoundOrd_lt(BoundOrd_start(start(m[i][1])), BoundOrd_start(start(m[i + 1][1])))
PairwiseDisjoint(m) ==
    \A i, j \in 1..Len(m) : i # j => ~overlaps(m[i][1], m[j][1])
\* a ends exactly where b starts: no gap and no shared point
Touches(a, b) == end(a)[1] # "U" /\ start(b) = flip_bound(end(a))
PointRange(p) == <<Included(p), Included(p)>>
\* every rank a bound can have: the places a range can start or end at
Positions == {<<v, t>> : v \in Vals, t \in 0..2} \cup {<<-1, 0>>, <<MaxVal + 2, 2>>}
Covers(k, r) ==
    /\ ~BoundOrd_lt(r, BoundOrd_start(start(k)))
    /\ ~BoundOrd_lt(BoundOrd_end(end(k)), r)
\* the values stored for position r (at most one when the keys are disjoint)
ValuesAt(m, r) == {e[2] : e \in {x \in Entries(m) : Covers(x[1], r)}}
Intersection(a, b) ==
    <<IF BoundOrd_lt(BoundOrd_start(start(a)), BoundOrd_start(start(b))) THEN start(b) ELSE start(a),
      IF BoundOrd_lt(BoundOrd_end(end(b)), BoundOrd_end(end(a))) THEN end(b) ELSE end(a)>>
Called(name) == pc = "returned" /\ op.name = name

\* C1: in every reachable state no two distinct stored ranges overlap
\* (touching stored ranges are allowed).
C1_NoOverlap == PairwiseDisjoint(inner)

C1_Witness ==
    /\ Called("insert_strict") /\ res = "Ok"
    /\ \E i \in 1..(Len(inner) - 1) : Touches(inner[i][1], inner[i + 1][1])
    /\ op.range \in Keys(inner) \ Keys(pre)

\* C2: iter() yields the entries in strictly ascending order of their start
\* bound, also after cut has put remainders back with insert_unchecked.
C2_IterAscending == Ascending(iter(inner))

C2_Witness ==
    /\ Called("cut") /\ res = "Ok"
    /\ Len(inner) = Len(pre) + 1
    /\ Len(inner) >= 3

\* C3: insert_strict(k, v) returns Ok and adds exactly (k, v) when no stored
\* range overlaps k (touching is accepted); otherwise it returns OverlapError
\* and leaves the map unchanged.
C3_InsertStrict ==
    Called("insert_strict") =>
        IF \E k \in Keys(pre) : overlaps(k, op.range)
        THEN res = "OverlapError" /\ inner = pre
        ELSE /\ res = "Ok"
             /\ Len(inner) = Len(pre) + 1
             /\ Entries(inner) = Entries(pre) \cup {<<op.range, op.value>>}
             /\ Ascending(inner)

C3_Witness ==
    /\ Called("insert_strict") /\ res = "Ok"
    /\ \E k \in Keys(pre) : Touches(k, op.range)
    /\ \E k \in Keys(pre) : Touches(op.range, k)

\* C4: overlapping(q) yields exactly the stored entries whose range overlaps
\* q, each once and in ascending order; a range that only touches q is not
\* yielded.  (Every map a call leaves is the map of the idle state that
\* follows it, so the queries are made there.)
C4_Overlapping ==
    pc = "idle" =>
        \A q \in ValidRanges :
            /\ overlapping(inner, q) = SelectSeq(inner, LAMBDA e : overlaps(e[1], q))
            /\ Ascending(overlapping(inner, q))

C4_Witness ==
    /\ pc = "idle"
    /\ \E q \in ValidRanges :
          /\ Len(overlapping(inner, q)) = 1
          /\ \E k \in Keys(inner) : Touches(k, q)
          /\ \E k \in Keys(inner) : Touches(q, k)

\* C5: get_entry_at_point(p) returns the one stored entry whose range
\* contains p, None when there is none; get_at_point, contains_point and
\* get_at_point_mut agree with it.
C5_PointLookup ==
    pc = "idle" =>
        \A p \in Vals :
            LET holders == {e \in Entries(inner) : overlaps(e[1], PointRange(p))}
                found == get_entry_at_point(inner, p)
            IN /\ IF holders = {} THEN found = None
                  ELSE Cardinality(holders) = 1 /\ IsSome(found) /\ Unwrap(found) \in holders
               /\ contains_point(inner, p) = IsSome(found)
               /\ get_at_point(inner, p) = IF IsSome(found) THEN Some(Unwrap(found)[2]) ELSE None
               /\ get_at_point_mut(inner, p) = get_at_point(inner, p)

\* 1 is the excluded end of one range and the included start of the next;
\* 0 is excluded by both of its neighbours
C5_Witness ==
    /\ pc = "idle"
    /\ \E i \in 1..(Len(inner) - 1) :
          /\ end(inner[i][1]) = Excluded(1) /\ start(inner[i + 1][1]) = Included(1)
          /\ get_entry_at_point(inner, 1) = Some(inner[i + 1])
    /\ \E i \in 1..(Len(inner) - 1) :
          /\ end(inner[i][1]) = Excluded(0) /\ start(inner[i + 1][1]) = Excluded(0)
          /\ get_entry_at_point(inner, 0) = None

\* C6: remove_overlapping(q) never fails, returns exactly the stored entries
\* that overlapped q in ascending order, removes them, leaves the others
\* unchanged, and afterwards overlapping(q) is empty.
C6_RemoveOverlapping ==
    Called("remove_overlapping") =>
        /\ res = "Ok"
        /\ ret = SelectSeq(pre, LAMBDA e : overlaps(e[1], op.range))
        /\ Ascending(ret)
        /\ Entries(inner) \cap Entries(ret) = {}
        /\ inner = SelectSeq(pre, LAMBDA e : ~overlaps(e[1], op.range))
        /\ overlapping(inner, op.range) = <<>>

C6_Witness ==
    /\ Called("remove_overlapping")
    /\ Len(ret) = 2
    /\ Len(inner) = 1

\* the piece of q each stored entry that overlaps q gives, in map order
PiecesOf(m, q) ==
    LET hit == SelectSeq(m, LAMBDA e : overlaps(e[1], q))
    IN [i \in 1..Len(hit) |-> <<Intersection(hit[i][1], q), hit[i][2]>>]

\* C7: a successful cut(q) returns, in ascending order, pairwise
\* non-overlapping pieces, each the intersection of q with one stored range
\* and carrying that range's value, that together cover exactly q
\* intersected with what the map covered.
C7_CutPieces ==
    (Called("cut") /\ res = "Ok") =>
        /\ ret = PiecesOf(pre, op.range)
        /\ Ascending(ret)
        /\ PairwiseDisjoint(ret)
        /\ \A r \in Positions :
              ValuesAt(ret, r) = IF Covers(op.range, r) THEN ValuesAt(pre, r) ELSE {}

\* both boundary entries are clipped and an entry between them is taken whole
C7_Witness ==
    /\ Called("cut") /\ res = "Ok"
    /\ Len(ret) = 3
    /\ Len(pre) = 3
    /\ ret[1][1] # pre[1][1]
    /\ ret[2][1] = pre[2][1]
    /\ ret[3][1] # pre[3][1]

\* the part of stored range k that a cut of q leaves before and after q
LeftRemainder(k, q) == <<start(k), flip_bound(start(q))>>
RightRemainder(k, q) == <<flip_bound(end(q)), end(k)>>
StraddlesStart(k, q) ==
    overlaps(k, q) /\ BoundOrd_lt(BoundOrd_start(start(k)), BoundOrd_start(start(q)))
StraddlesEnd(k, q) ==
    overlaps(k, q) /\ BoundOrd_lt(BoundOrd_end(end(q)), BoundOrd_end(end(k)))

\* C8: after a successful cut(q) no stored range overlaps q, the lookup of
\* every point outside q is unchanged, and a stored range that straddled an
\* edge of q is replaced by its remainder outside q with the same value.
C8_CutFrame ==
    (Called("cut") /\ res = "Ok") =>
        /\ \A k \in Keys(inner) : ~overlaps(k, op.range)
        /\ overlapping(inner, op.range) = <<>>
        /\ \A p \in Vals :
              ~overlaps(PointRange(p), op.range) =>
                  get_at_point(inner, p) = get_at_point(pre, p)
        /\ \A r \in Positions :
              ValuesAt(inner, r) = IF Covers(op.range, r) THEN {} ELSE ValuesAt(pre, r)
        /\ \A e \in Entries(pre) :
              /\ StraddlesStart(e[1], op.range) =>
                    <<LeftRemainder(e[1], op.range), e[2]>> \in Entries(inner)
              /\ StraddlesEnd(e[1], op.range) =>
                    <<RightRemainder(e[1], op.range), e[2]>> \in Entries(inner)
              /\ ~overlaps(e[1], op.range) => e \in Entries(inner)

\* one entry straddles the start of q and another one its end
C8_Witness ==
    /\ Called("cut") /\ res = "Ok"
    /\ \E e \in Entries(pre) : StraddlesStart(e[1], op.range) /\ ~StraddlesEnd(e[1], op.range)
    /\ \E e \in Entries(pre) : StraddlesEnd(e[1], op.range) /\ ~StraddlesStart(e[1], op.range)
    /\ \E p \in Vals : ~overlaps(PointRange(p), op.range) /\ IsSome(get_at_point(pre, p))

\* the remainders a cut of q must put back as K
RemaindersOf(m, q) ==
    {LeftRemainder(k, q) : k \in {x \in Keys(m) : StraddlesStart(x, q)}}
        \cup {RightRemainder(k, q) : k \in {x \in Keys(m) : StraddlesEnd(x, q)}}
Representable(kt, b) == IsSome(try_from_bounds(kt, start(b), end(b)))

\* C9: cut(q) fails with TryFromBoundsError exactly when a remainder that
\* must stay in the map cannot be made a K, and then the map is as before.
C9_CutAtomic ==
    Called("cut") =>
        /\ (\E b \in RemaindersOf(pre, op.range) : ~Representable(ktype, b))
              <=> res = "TryFromBoundsError"
        /\ res = "TryFromBoundsError" => inner = pre /\ ret = <<>>
        /\ res \in {"Ok", "TryFromBoundsError"}

\* single-entry case: the left remainder is a K, the right one is not
C9_Witness ==
    /\ Called("cut") /\ res = "TryFromBoundsError"
    /\ \E k \in Keys(pre) :
          /\ StraddlesStart(k, op.range) /\ StraddlesEnd(k, op.range)
          /\ Representable(ktype, LeftRemainder(k, op.range))
          /\ ~Representable(ktype, RightRemainder(k, op.range))

\* insert_strict of the pieces, in the order cut returned them; ok is FALSE
\* once a piece is not a K or is refused
RECURSIVE ReinsertAll(_, _, _)
ReinsertAll(m, kt, pieces) ==
    IF pieces = <<>> THEN [inner |-> m, ok |-> TRUE]
    ELSE LET k == try_from_bounds(kt, start(Head(pieces)[1]), end(Head(pieces)[1]))
         IN IF ~IsSome(k) THEN [inner |-> m, ok |-> FALSE]
            ELSE LET r == insert_strict(m, Unwrap(k), Head(pieces)[2])
                 IN IF r.res # "Ok" THEN [inner |-> r.inner, ok |-> FALSE]
                    ELSE ReinsertAll(r.inner, kt, Tail(pieces))

AllRepresentable(kt, pieces) ==
    \A i \in 1..Len(pieces) : Representable(kt, pieces[i][1])

\* C10 as stated: cut(q) followed by insert_strict of the returned pieces
\* succeeds for every piece and gives back the map as it was before the cut.
C10_RoundTripSameMap ==
    (Called("cut") /\ res = "Ok" /\ AllRepresentable(ktype, ret)) =>
        /\ ReinsertAll(inner, ktype, ret).ok
        /\ ReinsertAll(inner, ktype, ret).inner = pre

\* C10 amended: cut(q) followed by insert_strict of the returned pieces
\* succeeds for every piece and gives back the coverage and the values of
\* the map before the cut; the entries are the same ones when no stored
\* range straddled an edge of q, and a range that did comes back as its
\* touching parts.
C10_RoundTrip ==
    (Called("cut") /\ res = "Ok" /\ AllRepresentable(ktype, ret)) =>
        LET back == ReinsertAll(inner, ktype, ret)
        IN /\ back.ok
           /\ PairwiseDisjoint(back.inner)
           /\ Ascending(back.inner)
           /\ \A r \in Positions : ValuesAt(back.inner, r) = ValuesAt(pre, r)
           /\ \A e \in Entries(pre) :
                 (~StraddlesStart(e[1], op.range) /\ ~StraddlesEnd(e[1], op.range))
                     => e \in Entries(back.inner)
           /\ (\A k \in Keys(pre) : ~StraddlesStart(k, op.range) /\ ~StraddlesEnd(k, op.range))
                 => back.inner = pre

\* a cut that splits one entry and takes another whole, pieces put back
C10_Witness ==
    /\ Called("cut") /\ res = "Ok" /\ AllRepresentable(ktype, ret)
    /\ Len(ret) = 2
    /\ \E k \in Keys(pre) : StraddlesStart(k, op.range)
    /\ Len(ReinsertAll(inner, ktype, ret).inner) = Len(pre) + 1

\* ---------------------------------------------------------------- any argument
\* The same calls with every range the argument type can hold, invalid ones
\* (start ranked after end, such as 1..1 or 1..0) included.  No call checks
\* its argument: overlapping hands it to the comparators, remove_overlapping
\* to overlaps, and insert_strict stores it when overlapping finds nothing.
AnyRanges(kt) == {k \in BoundPairs : InDomain(kt, k)}

AnyKRanges(kt) ==
    {k \in AnyRanges(kt) : IsSome(try_from_bounds(kt, start(k), end(k)))}

OverlappingAny ==
    /\ pc = "idle"
    /\ \E q \in AnyRanges(ktype) :
          Returned("overlapping", q, 0, Ok(inner, overlapping(inner, q)))

InsertStrictAny ==
    /\ pc = "idle"
    /\ \E k \in AnyKRanges(ktype), v \in Values :
          /\ Len(insert_strict(inner, k, v).inner) <= MaxLen
          /\ Returned("insert_strict", k, v, insert_strict(inner, k, v))

RemoveOverlappingAny ==
    /\ pc = "idle"
    /\ \E q \in AnyRanges(ktype) :
          Returned("remove_overlapping", q, 0, remove_overlapping(inner, q))

CutAny ==
    /\ pc = "idle"
    /\ \E q \in AnyRanges(ktype) :
          /\ Len(cut(inner, ktype, q).inner) <= MaxLen
          /\ Returned("cut", q, 0, cut(inner, ktype, q))

NextAny ==
    OverlappingAny \/ InsertStrictAny \/ RemoveOverlappingAny \/ CutAny \/ DropResult

SpecAny == Init /\ [][NextAny]_vars

\* C11: every call that takes a range argument panics when the argument is an
\* invalid range: it does not return normally and leaves the map as it was.
C11_InvalidRangePanics ==
    (pc = "returned" /\ ~is_valid_range(op.range)) =>
        (res = "Panic" /\ inner = pre)

\* C12: with valid range arguments every stored range is valid: its start is
\* not ranked after its end; so is every remainder that cut puts back.
C12_StoredValid == \A k \in Keys(inner) : is_valid_range(k)

\* a cut inside one stored range that put back a remainder on each side
C12_Witness ==
    /\ Called("cut")
    /\ res = "Ok"
    /\ Len(pre) >= 1
    /\ Len(inner) = Len(pre) + 1
    /\ \E k \in Keys(inner) : Touches(k, op.range)
    /\ \E k \in Keys(inner) : Touches(op.range, k)

\* ---------------------------------------------------------------- the types K
\* The values of each range type, with the fields the type has.  A
\* RangeInclusive carries the flag its iterator sets once it has yielded its
\* last item (start has then reached end); start..=end builds it with the
\* flag cleared.
KValues(kt) ==
    CASE kt = "BoundPair" ->
            {[type |-> kt, start |-> s, end |-> e] : s \in Bounds, e \in Bounds}
      [] kt = "Range" ->
            {[type |-> kt, start |-> s, end |-> e] : s \in Vals, e \in Vals}
      [] kt = "RangeInclusive" ->
            {[type |-> kt, start |-> s, end |-> e, exhausted |-> FALSE] :
                s \in Vals, e \in Vals}
            \cup {[type |-> kt, start |-> e, end |-> e, exhausted |-> TRUE] : e \in Vals}
      [] kt = "RangeFrom" -> {[type |-> kt, start |-> s] : s \in Vals}
      [] kt = "RangeTo" -> {[type |-> kt, end |-> e] : e \in Vals}
      [] kt = "RangeToInclusive" -> {[type |-> kt, end |-> e] : e \in Vals}
      [] kt = "RangeFull" -> {[type |-> kt]}

\* NiceRange::start: self.start_bound().cloned()
start_bound(k) ==
    CASE k.type = "BoundPair" -> k.start
      [] k.type \in {"Range", "RangeInclusive", "RangeFrom"} -> Included(k.start)
      [] k.type \in {"RangeTo", "RangeToInclusive", "RangeFull"} -> Unbounded

\* NiceRange::end: self.end_bound().cloned(); an exhausted RangeInclusive
\* presents its end as Excluded so that it contains nothing
end_bound(k) ==
    CASE k.type = "BoundPair" -> k.end
      [] k.type \in {"Range", "RangeTo"} -> Excluded(k.end)
      [] k.type = "RangeInclusive" ->
            IF k.exhausted THEN Excluded(k.end) ELSE Included(k.end)
      [] k.type = "RangeToInclusive" -> Included(k.end)
      [] k.type \in {"RangeFrom", "RangeFull"} -> Unbounded

\* try_from_bounds whose RangeInclusive arm is the arm of Range
K_try_from_bounds_arm(kt, s, e) ==
    CASE kt = "BoundPair" -> Some([type |-> kt, start |-> s, end |-> e])
      [] kt = "Range" ->
            IF s[1] = "I" /\ e[1] = "E"
            THEN Some([type |-> kt, start |-> s[2], end |-> e[2]]) ELSE None
      [] kt = "RangeInclusive" ->
            IF s[1] = "I" /\ e[1] = "E"
            THEN Some([type |-> kt, start |-> s[2], end |-> e[2], exhausted |-> FALSE])
            ELSE None
      [] kt = "RangeFrom" ->
            IF s[1] = "I" /\ e[1] = "U" THEN Some([type |-> kt, start |-> s[2]]) ELSE None
      [] kt = "RangeTo" ->
            IF s[1] = "U" /\ e[1] = "E" THEN Some([type |-> kt, end |-> e[2]]) ELSE None
      [] kt = "RangeToInclusive" ->
            IF s[1] = "U" /\ e[1] = "I" THEN Some([type |-> kt, end |-> e[2]]) ELSE None
      [] kt = "RangeFull" ->
            IF s[1] = "U" /\ e[1] = "U" THEN Some([type |-> kt]) ELSE None

\* K::try_from_bounds(s, e) as the value of type K each impl builds
K_try_from_bounds(kt, s, e) ==
    CASE kt = "BoundPair" -> Some([type |-> kt, start |-> s, end |-> e])
      [] kt = "Range" ->
            IF s[1] = "I" /\ e[1] = "E"
            THEN Some([type |-> kt, start |-> s[2], end |-> e[2]]) ELSE None
      [] kt = "RangeInclusive" ->
            IF s[1] = "I" /\ e[1] = "I"
            THEN Some([type |-> kt, start |-> s[2], end |-> e[2], exhausted |-> FALSE])
            ELSE None
      [] kt = "RangeFrom" ->
            IF s[1] = "I" /\ e[1] = "U" THEN Some([type |-> kt, start |-> s[2]]) ELSE None
      [] kt = "RangeTo" ->
            IF s[1] = "U" /\ e[1] = "E" THEN Some([type |-> kt, end |-> e[2]]) ELSE None
      [] kt = "RangeToInclusive" ->
            IF s[1] = "U" /\ e[1] = "I" THEN Some([type |-> kt, end |-> e[2]]) ELSE None
      [] kt = "RangeFull" ->
            IF s[1] = "U" /\ e[1] = "U" THEN Some([type |-> kt]) ELSE None

\* a call of K::try_from_bounds with any two bounds
TryFromBounds ==
    /\ pc = "idle"
    /\ \E s \in Bounds, e \in Bounds :
          /\ pc' = "returned"
          /\ op' = [name |-> "try_from_bounds", range |-> <<s, e>>, value |-> 0]
          /\ pre' = <<>>
          /\ res' = "Ok"
          /\ ret' = K_try_from_bounds(ktype, s, e)
          /\ UNCHANGED <<ktype, inner>>

\* a call of K::try_from_bounds(k.start(), k.end()) with any k of type K
TryFromBoundsOfK ==
    /\ pc = "idle"
    /\ \E k \in KValues(ktype) :
          /\ pc' = "returned"
          /\ op' = [name |-> "try_from_bounds_of_k",
                    range |-> <<start_bound(k), end_bound(k)>>, value |-> 0]
          /\ pre' = <<k>>
          /\ res' = "Ok"
          /\ ret' = K_try_from_bounds(ktype, start_bound(k), end_bound(k))
          /\ UNCHANGED <<ktype, inner>>

NextTry == TryFromBounds \/ TryFromBoundsOfK \/ DropResult

SpecTry == Init /\ [][NextTry]_vars

\* the combination of bounds each type holds (spec 2)
Represents(kt, s, e) ==
    CASE kt = "BoundPair" -> TRUE
      [] kt = "Range" -> s[1] = "I" /\ e[1] = "E"
      [] kt = "RangeInclusive" -> s[1] = "I" /\ e[1] = "I"
      [] kt = "RangeFrom" -> s[1] = "I" /\ e[1] = "U"
      [] kt = "RangeTo" -> s[1] = "U" /\ e[1] = "E"
      [] kt = "RangeToInclusive" -> s[1] = "U" /\ e[1] = "I"
      [] kt = "RangeFull" -> s[1] = "U" /\ e[1] = "U"

\* try_from_bounds(s, e) gives a range exactly for the combination K holds,
\* and the range it gives has start s and end e
TryFromBoundsExact ==
    Called("try_from_bounds") =>
        LET s == op.range[1]
            e == op.range[2]
        IN /\ IsSome(ret) <=> Represents(ktype, s, e)
           /\ IsSome(ret) =>
                /\ start_bound(Unwrap(ret)) = s
                /\ end_bound(Unwrap(ret)) = e
                /\ try_from_bounds(ktype, s, e) = Some(<<s, e>>)
           /\ ~IsSome(ret) => try_from_bounds(ktype, s, e) = None

\* C13 as stated: try_from_bounds is exact, and try_from_bounds(k.start(),
\* k.end()) gives back k for every k of type K.
C13_TryFromBoundsEveryK ==
    /\ TryFromBoundsExact
    /\ Called("try_from_bounds_of_k") => ret = Some(pre[1])

\* C13 amended: try_from_bounds is exact, and try_from_bounds(k.start(),
\* k.end()) gives back k for every k of type K except an exhausted
\* RangeInclusive, for which it gives absence.
C13_TryFromBounds ==
    /\ TryFromBoundsExact
    /\ Called("try_from_bounds_of_k") =>
         LET k == pre[1]
             is_exhausted == ktype = "RangeInclusive" /\ k.exhausted
         IN /\ ~is_exhausted => ret = Some(k)
            /\ is_exhausted => ret = None

\* an inclusive range that has not been iterated comes back as itself
C13_Witness ==
    /\ Called("try_from_bounds_of_k")
    /\ ktype = "RangeInclusive"
    /\ ~pre[1].exhausted
    /\ ret = Some(pre[1])

\* ---------------------------------------------------------------- unimplemented
\* insert_merge_touching, insert_merge_overlapping,
\* insert_merge_touching_or_overlapping and split_off: the body of each is
\* todo!(), which panics when the function is called.
insert_merge_touching(m, k, value) == Panic(m)

insert_merge_overlapping(m, k, value) == Panic(m)

insert_merge_touching_or_overlapping(m, k, value) == Panic(m)

split_off(m, start_bound_arg) == Panic(m)

InsertMergeTouching ==
    /\ pc = "idle"
    /\ \E k \in KRanges(ktype), v \in Values :
          Returned("insert_merge_touching", k, v, insert_merge_touching(inner, k, v))

InsertMergeOverlapping ==
    /\ pc = "idle"
    /\ \E k \in KRanges(ktype), v \in Values :
          Returned("insert_merge_overlapping", k, v, insert_merge_overlapping(inner, k, v))

InsertMergeTouchingOrOverlapping ==
    /\ pc = "idle"
    /\ \E k \in KRanges(ktype), v \in Values :
          Returned("insert_merge_touching_or_overlapping", k, v,
                   insert_merge_touching_or_overlapping(inner, k, v))

\* split_off(start_bound); op.range holds the bound as the range from it on
SplitOff ==
    /\ pc = "idle"
    /\ \E b \in {x \in Bounds : InDomain(ktype, <<x, Unbounded>>)} :
          Returned("split_off", <<b, Unbounded>>, 0, split_off(inner, b))

NextTodo ==
    \/ InsertStrict
    \/ RemoveOverlapping
    \/ Cut
    \/ InsertMergeTouching
    \/ InsertMergeOverlapping
    \/ InsertMergeTouchingOrOverlapping
    \/ SplitOff
    \/ DropResult

SpecTodo == Init /\ [][NextTodo]_vars

TouchesEither(a, b) == Touches(a, b) \/ Touches(b, a)

\* the stored entries a merging insert of k absorbs
Absorbed(m, name, k) ==
    {x \in Entries(m) :
        \/ name # "insert_merge_overlapping" /\ TouchesEither(x[1], k)
        \/ name # "insert_merge_touching" /\ overlaps(x[1], k)}

\* the range from the least start to the greatest end of a set of ranges
Span(ranges) ==
    <<CHOOSE s \in {start(r) : r \in ranges} :
          \A r \in ranges : ~BoundOrd_lt(BoundOrd_start(start(r)), BoundOrd_start(s)),
      CHOOSE e \in {end(r) : r \in ranges} :
          \A r \in ranges : ~BoundOrd_lt(BoundOrd_end(e), BoundOrd_end(end(r)))>>

MergeNames ==
    {"insert_merge_touching", "insert_merge_overlapping",
     "insert_merge_touching_or_overlapping"}

\* C14: a merging insert of (k, v) absorbs the stored entries that touch /
\* overlap / touch or overlap k into one entry spanning k and them with value
\* v and returns that entry's range; the other entries are unchanged; it
\* returns TryFromBoundsError when the span is not a K, and insert_merge_touching
\* returns OverlapError when k overlaps a stored entry.
C14_InsertMerge ==
    (pc = "returned" /\ op.name \in MergeNames) =>
        LET k == op.range
            absorbed == Absorbed(pre, op.name, k)
            span == Span({k} \cup {x[1] : x \in absorbed})
        IN IF op.name = "insert_merge_touching" /\ map_overlaps(pre, k)
           THEN res = "OverlapError" /\ inner = pre
           ELSE IF Representable(ktype, span)
           THEN /\ res = "Ok"
                /\ ret = <<span>>
                /\ Entries(inner) = (Entries(pre) \ absorbed) \cup {<<span, op.value>>}
                /\ Ascending(inner)
           ELSE res = "TryFromBoundsError" /\ inner = pre

\* the entry of pre that contains the bound b and starts before it
Straddlers(m, b) ==
    {x \in Entries(m) :
        /\ BoundOrd_lt(BoundOrd_start(start(x[1])), BoundOrd_start(b))
        /\ ~BoundOrd_lt(BoundOrd_end(end(x[1])), BoundOrd_start(b))}

\* C15: split_off(b) moves every entry that starts at or after b to the
\* returned map, splits an entry straddling b into a left remainder that stays
\* and a right remainder that moves, and leaves the other entries; the two
\* maps in order give back the coverage and values; it returns
\* TryFromBoundsError and leaves the map as it was when a remainder is not a K.
C15_SplitOff ==
    Called("split_off") =>
        LET b == start(op.range)
            straddlers == Straddlers(pre, b)
            lefts == {<<<<start(x[1]), flip_bound(b)>>, x[2]>> : x \in straddlers}
            rights == {<<<<b, end(x[1])>>, x[2]>> : x \in straddlers}
            moved == {x \in Entries(pre) :
                        ~BoundOrd_lt(BoundOrd_start(start(x[1])), BoundOrd_start(b))}
        IN IF \A x \in lefts \cup rights : Representable(ktype, x[1])
           THEN /\ res = "Ok"
                /\ Entries(inner) = (Entries(pre) \ (moved \cup straddlers)) \cup lefts
                /\ Entries(ret) = moved \cup rights
                /\ Ascending(inner) /\ Ascending(ret)
                /\ \A r \in Positions :
                      ValuesAt(inner, r) \cup ValuesAt(ret, r) = ValuesAt(pre, r)
           ELSE res = "TryFromBoundsError" /\ inner = pre

\* ---------------------------------------------------------------- the ranking
\* The rank the comparators give a bound in each role, for any three bounds.
Roles == {"start", "end"}

RankOf(role, bound) == IF role = "start" THEN comp_start(bound) ELSE comp_end(bound)

Rank ==
    /\ pc = "idle"
    /\ \E a \in Bounds, b \in Bounds, c \in Bounds, ra \in Roles, rb \in Roles, rc \in Roles :
          /\ pc' = "returned"
          /\ op' = [name |-> "rank", range |-> NoRange, value |-> 0]
          /\ pre' = <<<<ra, a>>, <<rb, b>>, <<rc, c>>>>
          /\ res' = "Ok"
          /\ ret' = <<RankOf(ra, a), RankOf(rb, b), RankOf(rc, c)>>
          /\ UNCHANGED <<ktype, inner>>

NextOrd == Rank \/ DropResult

SpecOrd == Init /\ [][NextOrd]_vars

\* x ranks below y
Below(x, y) == BoundOrd_cmp(x, y) = "Less"

\* C16: the ranking is a total order; for one value a start ranks Unbounded <
\* Included < Excluded and an end Excluded < Included < Unbounded; for two
\* values the values decide; an unbounded start is below and an unbounded end
\* above every bounded bound; an end Excluded(v) is below Included(v), which
\* is below a start Excluded(v).
C16_Ranking ==
    Called("rank") =>
        LET ra == pre[1][1]
            a == pre[1][2]
            rb == pre[2][1]
            b == pre[2][2]
            x == ret[1]
            y == ret[2]
            z == ret[3]
        IN \* a total order
           /\ (Below(x, y) /\ ~Below(y, x) /\ x # y)
                \/ (~Below(x, y) /\ Below(y, x) /\ x # y)
                \/ (~Below(x, y) /\ ~Below(y, x) /\ x = y)
           /\ (Below(x, y) /\ Below(y, z)) => Below(x, z)
           /\ BoundOrd_cmp(x, y) = "Greater" <=> Below(y, x)
           \* one value
           /\ (ra = "start" /\ rb = "start" /\ a[1] = "U" /\ b[1] = "I") => Below(x, y)
           /\ (ra = "start" /\ rb = "start" /\ a[1] = "I" /\ b[1] = "E" /\ a[2] = b[2])
                => Below(x, y)
           /\ (ra = "end" /\ rb = "end" /\ a[1] = "E" /\ b[1] = "I" /\ a[2] = b[2])
                => Below(x, y)
           /\ (ra = "end" /\ rb = "end" /\ a[1] = "I" /\ b[1] = "U") => Below(x, y)
           \* two values
           /\ (a[1] # "U" /\ b[1] # "U" /\ a[2] < b[2]) => Below(x, y)
           \* unbounded
           /\ (ra = "start" /\ a[1] = "U" /\ b[1] # "U") => Below(x, y)
           /\ (rb = "end" /\ b[1] = "U" /\ a[1] # "U") => Below(x, y)
           /\ (ra = "start" /\ a[1] = "U" /\ rb = "end" /\ b[1] = "U") => Below(x, y)
           \* across roles
           /\ (ra = "end" /\ a[1] = "E" /\ b[1] = "I" /\ a[2] = b[2]) => Below(x, y)
           /\ (a[1] = "I" /\ rb = "start" /\ b[1] = "E" /\ a[2] = b[2]) => Below(x, y)

\* an end Excluded(1), a start Included(1) and a start Excluded(1), ranked in
\* this order
C16_Witness ==
    /\ Called("rank")
    /\ pre = <<<<"end", Excluded(1)>>, <<"start", Included(1)>>, <<"start", Excluded(1)>>>>
    /\ Below(ret[1], ret[2])
    /\ Below(ret[2], ret[3])

\* ---------------------------------------------------------------- overlaps
\* overlaps on any two valid ranges a and b: the predicate itself, as
\* remove_overlapping calls it on a stored a with argument b, and
\* RangeBoundsMap::overlaps of the map that holds a alone, and the other way
\* round.
Single(k) == <<<<k, 0>>>>

Overlaps ==
    /\ pc = "idle"
    /\ \E a \in ValidRanges, b \in ValidRanges :
          /\ pc' = "returned"
          /\ op' = [name |-> "overlaps", range |-> b, value |-> 0]
          /\ pre' = Single(a)
          /\ res' = "Ok"
          /\ ret' = [a_b |-> overlaps(a, b),
                     b_a |-> overlaps(b, a),
                     a_a |-> overlaps(a, a),
                     map_a_b |-> map_overlaps(Single(a), b),
                     map_b_a |-> map_overlaps(Single(b), a),
                     map_a_a |-> map_overlaps(Single(a), a),
                     removed_a_b |-> remove_overlapping(Single(a), b).ret = Single(a),
                     removed_b_a |-> remove_overlapping(Single(b), a).ret = Single(b)]
          /\ UNCHANGED <<ktype, inner>>

NextOverlaps == Overlaps \/ DropResult

SpecOverlaps == Init /\ [][NextOverlaps]_vars

\* C17: overlaps on valid ranges is symmetric and reflexive; a ending
\* Excluded(v) with b starting Included(v), or a ending Included(v) with b
\* starting Excluded(v), do not overlap; a ending Included(v) with b starting
\* Included(v) do.  The map's overlaps and remove_overlapping decide the same.
C17_Overlaps ==
    Called("overlaps") =>
        LET a == pre[1][1]
            b == op.range
        IN /\ ret.a_b = ret.b_a
           /\ ret.map_a_b = ret.map_b_a
           /\ ret.removed_a_b = ret.removed_b_a
           /\ ret.a_a /\ ret.map_a_a
           /\ ret.map_a_b = ret.a_b
           /\ ret.removed_a_b = ret.a_b
           /\ (end(a)[1] = "E" /\ start(b) = Included(end(a)[2])) => ~ret.a_b
           /\ (end(a)[1] = "I" /\ start(b) = Excluded(end(a)[2])) => ~ret.a_b
           /\ (end(a)[1] = "I" /\ start(b) = Included(end(a)[2])) => ret.a_b

\* [0, 1) and [1, 2] touch and do not overlap
C17_Witness ==
    /\ Called("overlaps")
    /\ pre = Single(<<Included(0), Excluded(1)>>)
    /\ op.range = <<Included(1), Included(2)>>
    /\ ~ret.a_b /\ ~ret.map_a_b /\ ~ret.removed_a_b

\* ---------------------------------------------------------------- the cut primitive
\* cut_range on any two valid ranges that overlap, and the cut of the raw-pair
\* map that holds target alone, which returns the inside piece and keeps the
\* other pieces.
CutRange ==
    /\ pc = "idle"
    /\ \E target \in ValidRanges, cutter \in ValidRanges :
          /\ overlaps(target, cutter)
          /\ pc' = "returned"
          /\ op' = [name |-> "cut_range", range |-> cutter, value |-> 0]
          /\ pre' = Single(target)
          /\ res' = cut(Single(target), "BoundPair", cutter).res
          /\ ret' = [pieces |-> cut_range(target, cutter),
                     returned |-> cut(Single(target), "BoundPair", cutter).ret,
                     kept |-> cut(Single(target), "BoundPair", cutter).inner]
          /\ UNCHANGED <<ktype, inner>>

NextCutRange == CutRange \/ DropResult

SpecCutRange == Init /\ [][NextCutRange]_vars

\* the pieces present, in order
Present(pieces) ==
    pieces.before_cut \o pieces.inside_cut \o pieces.after_cut

\* C18: for valid overlapping target and cutter the inside piece is present
\* and is their intersection, the before piece is present exactly when target
\* starts before cutter, the after piece exactly when cutter ends before
\* target; the pieces present are valid, pairwise non-overlapping, each
\* touches the next, and together they cover exactly target.
C18_CutRange ==
    Called("cut_range") =>
        LET target == pre[1][1]
            cutter == op.range
            pieces == ret.pieces
            present == Present(pieces)
        IN /\ pieces.inside_cut = Some(Intersection(target, cutter))
           /\ IsSome(pieces.before_cut) <=>
                BoundOrd_lt(BoundOrd_start(start(target)), BoundOrd_start(start(cutter)))
           /\ IsSome(pieces.after_cut) <=>
                BoundOrd_lt(BoundOrd_end(end(cutter)), BoundOrd_end(end(target)))
           /\ \A i \in 1..Len(present) : is_valid_range(present[i])
           /\ \A i, j \in 1..Len(present) : i # j => ~overlaps(present[i], present[j])
           /\ \A i \in 1..(Len(present) - 1) : Touches(present[i], present[i + 1])
           /\ \A r \in Positions :
                (\E i \in 1..Len(present) : Covers(present[i], r)) <=> Covers(target, r)
           \* the cut of the map holding target alone hands the pieces out so
           /\ res = "Ok"
           /\ ret.returned = <<<<Unwrap(pieces.inside_cut), 0>>>>
           /\ Keys(ret.kept) = {Unwrap(p) : p \in {pieces.before_cut, pieces.after_cut} \ {None}}
           /\ Len(ret.kept) = Len(present) - 1

\* a cutter strictly inside target: all three pieces
C18_Witness ==
    /\ Called("cut_range")
    /\ pre = Single(<<Included(0), Included(2)>>)
    /\ op.range = <<Included(1), Included(1)>>
    /\ ret.pieces = [before_cut |-> Some(<<Included(0), Excluded(1)>>),
                     inside_cut |-> Some(<<Included(1), Included(1)>>),
                     after_cut |-> Some(<<Excluded(1), Included(2)>>)]
    /\ Len(ret.kept) = 2

\* ---------------------------------------------------------------- cut alone
\* Maps built by insert_strict (which builds every map of the bounds) and cut
\* by cut.
NextCut == InsertStrict \/ Cut \/ DropResult

SpecCut == Init /\ [][NextCut]_vars

\* the entries cut looks up at the two ends of q
LeftOf(m, q) == get_key_value(m, comp_start(start(q)))
RightOf(m, q) == get_key_value(m, comp_end(end(q)))
SingleBranch(m, q) ==
    /\ IsSome(LeftOf(m, q))
    /\ IsSome(RightOf(m, q))
    /\ start(Unwrap(LeftOf(m, q))[1]) = start(Unwrap(RightOf(m, q))[1])

\* C19: cut with a valid q never panics on an unwrap.  The single-entry
\* branch is taken exactly when one stored entry contains both ends of q, and
\* then the removal keyed at the start of q finds that entry and inside_cut is
\* present.  In the other branch each boundary entry found overlaps q (so
\* inside_cut is present), the two boundary entries are distinct, and the
\* removals keyed at the two ends of q return a value exactly when the
\* matching boundary entry was found.
C19_CutNoPanic ==
    /\ Called("cut") => res # "Panic"
    /\ pc = "idle" =>
         \A q \in Queries(ktype) :
            LET left == LeftOf(inner, q)
                right == RightOf(inner, q)
                removed_left == remove(inner, comp_start(start(q)))
                removed_right == remove(removed_left.inner, comp_end(end(q)))
            IN /\ cut(inner, ktype, q).res # "Panic"
               /\ SingleBranch(inner, q) <=>
                    \E x \in Entries(inner) :
                        /\ Covers(x[1], BoundOrd_start(start(q)))
                        /\ Covers(x[1], BoundOrd_end(end(q)))
               /\ IF SingleBranch(inner, q)
                  THEN /\ left = right
                       /\ removed_left.value = Some(Unwrap(left)[2])
                       /\ Unwrap(left) \notin Entries(removed_left.inner)
                       /\ IsSome(cut_range(Unwrap(left)[1], q).inside_cut)
                  ELSE /\ IsSome(left) =>
                            /\ overlaps(Unwrap(left)[1], q)
                            /\ IsSome(cut_range(Unwrap(left)[1], q).inside_cut)
                       /\ IsSome(right) =>
                            /\ overlaps(Unwrap(right)[1], q)
                            /\ IsSome(cut_range(Unwrap(right)[1], q).inside_cut)
                       /\ (IsSome(left) /\ IsSome(right)) => left # right
                       /\ IsSome(removed_left.value) <=> IsSome(left)
                       /\ IsSome(removed_right.value) <=> IsSome(right)

\* a cut that found two boundary entries and put a remainder of each back
C19_Witness ==
    /\ Called("cut")
    /\ res = "Ok"
    /\ ~SingleBranch(pre, op.range)
    /\ IsSome(LeftOf(pre, op.range))
    /\ IsSome(RightOf(pre, op.range))
    /\ StraddlesStart(Unwrap(LeftOf(pre, op.range))[1], op.range)
    /\ StraddlesEnd(Unwrap(RightOf(pre, op.range))[1], op.range)
    /\ Len(ret) >= 2

\* C20: after a cut with q has succeeded and its result has been drained, a
\* second cut with the same q returns Ok with no entries and leaves the map
\* as it is.
C20_CutIdempotent ==
    (Called("cut") /\ res = "Ok") =>
        LET second == cut(inner, ktype, op.range)
        IN /\ second.res = "Ok"
           /\ second.ret = <<>>
           /\ second.inner = inner

\* a first cut that returned entries and left a remainder touching each end
\* of q for the second cut to find
C20_Witness ==
    /\ Called("cut")
    /\ res = "Ok"
    /\ Len(ret) >= 2
    /\ inner # pre
    /\ \E k \in Keys(inner) : Touches(k, op.range)
    /\ \E k \in Keys(inner) : Touches(op.range, k)
    /\ cut(inner, ktype, op.range).ret = <<>>

====
